---------------------------- MODULE Spec2Model ----------------------------
(***************************************************************************)
(* Sensor-coverage interval engine of src/src/bin/d15.rs: Sensor::range,   *)
(* the SensorRange order, join, join_all, len, clamp, and the answer       *)
(* function (part-A count_slots, part-B row search).                       *)
(*                                                                         *)
(* Representation                                                          *)
(*   Coord(i32, i32)            <<x, y>>           (c.0 is c[1], c.1 c[2]) *)
(*   Sensor                     [sensor, closest_beacon]                   *)
(*   SensorRange(first..=last)  [first, last]                              *)
(*   Option<T>                  <<>> for None, <<v>> for Some(v)           *)
(*   BTreeSet<SensorRange>      a set, iterated in the order of cmp        *)
(*   u64 that may have wrapped  [k, r] standing for k * 2^64 + r           *)
(***************************************************************************)
EXTENDS Integers, Sequences, FiniteSets

(***************************************************************************)
(* Bounds of the checked instances.                                        *)
(***************************************************************************)
\* sensors stand at x in -MaxX..MaxX
MaxX == 2
\* sensors stand at y in 0..MaxY
MaxY == 1
\* the closest beacon is at Manhattan distance <= MaxReach of its sensor
MaxReach == 2
\* at most MaxSensors input lines
MaxSensors == 2
\* the part-A rows: heights in the source is [10, 2000000]
HeightA == 0
HeightB == 1
\* the part-B regions: limit in the source is [20, 4000000]
LimitA == 1
LimitB == 2
\* intervals handed to join and join_all lie in 0..MaxCol
MaxCol == 4
\* join_all is handed at most MaxLen intervals
MaxLen == 3
\* rows tried around the rows of tests::ranges
TestSpan == 12
\* bits of the integers of the fixed-width calls, in place of 32
IntBits == 3
\* knots of the longest rope stepped freely, and how far its tail may go
MaxKnots == 4
MaxTail == 1

(***************************************************************************)
(* Option                                                                  *)
(***************************************************************************)
None == <<>>

Some(v) == <<v>>

(***************************************************************************)
(* Coord                                                                   *)
(***************************************************************************)
\* i32::abs_diff
abs_diff(a, b) == IF a >= b THEN a - b ELSE b - a

\* distance_to with a signed difference of the x coordinates
distance_to_signed(self, to) == (self[1] - to[1]) + abs_diff(self[2], to[2])

distance_to(self, to) == abs_diff(self[1], to[1]) + abs_diff(self[2], to[2])

(***************************************************************************)
(* SensorRange                                                             *)
(***************************************************************************)
new(first, last) == [first |-> first, last |-> last]

max(a, b) == IF a >= b THEN a ELSE b

min(a, b) == IF a <= b THEN a ELSE b

\* Ordering of two i32: "Less", "Equal" or "Greater"
cmp_i32(a, b) == IF a < b THEN "Less" ELSE IF a = b THEN "Equal" ELSE "Greater"

reverse(o) == IF o = "Less" THEN "Greater" ELSE IF o = "Greater" THEN "Less" ELSE o

\* cmp on first alone: intervals with the same first compare Equal
cmp_first_only(self, other) == cmp_i32(self.first, other.first)

\* cmp without the reverse: ties on first are ordered by last ascending
cmp_last_ascending(self, other) ==
    LET definitive == cmp_i32(self.first, other.first)
    IN  IF definitive = "Equal"
        THEN cmp_i32(self.last, other.last)
        ELSE definitive

cmp(self, other) ==
    LET definitive == cmp_i32(self.first, other.first)
    IN  IF definitive = "Equal"
        THEN reverse(cmp_i32(self.last, other.last))
        ELSE definitive

\* join that never merges
join_never(self, rhs) == <<self, Some(rhs)>>

\* join without the + 1: exactly adjacent intervals are kept apart
join_adjacent(self, rhs) ==
    IF self.last < rhs.first
    THEN <<self, Some(rhs)>>
    ELSE <<new(self.first, max(self.last, rhs.last)), None>>

\* join without the max: the merged interval ends where rhs ends
join_rhs_last(self, rhs) ==
    IF self.last + 1 < rhs.first
    THEN <<self, Some(rhs)>>
    ELSE <<new(self.first, rhs.last), None>>

join(self, rhs) ==
    IF self.last + 1 < rhs.first
    THEN <<self, Some(rhs)>>
    ELSE <<new(self.first, max(self.last, rhs.last)), None>>

\* len without the + 1
len_exclusive(self) == self.last - self.first

len(self) == self.last + 1 - self.first

clamp(self, a, b) == new(max(self.first, a), min(self.last, b))

\* RangeInclusive::contains
contains(self, v) == self.first <= v /\ v <= self.last

(***************************************************************************)
(* Sensor                                                                  *)
(***************************************************************************)
distance(self) == distance_to(self.sensor, self.closest_beacon)

\* range that takes the full reach on every row
range_ignore_row(self, row) ==
    LET offset == distance(self)
        first0 == self.sensor[1] - offset
        last0  == self.sensor[1] + offset
        onrow  == self.closest_beacon[2] = row
        first  == IF onrow /\ self.closest_beacon[1] = first0
                  THEN first0 + 1 ELSE first0
        last   == IF onrow /\ self.closest_beacon[2] = last0
                  THEN last0 - 1 ELSE last0
    IN  IF first > last THEN None ELSE Some(new(first, last))

\* range without the test of line 48: the trimmed interval is returned
\* even when first > last
range_keep_collapsed(self, row) ==
    LET min_distance == abs_diff(row, self.sensor[2])
        max_distance == distance(self)
    IN  IF max_distance < min_distance
        THEN None
        ELSE LET offset == max_distance - min_distance
                 first0 == self.sensor[1] - offset
                 last0  == self.sensor[1] + offset
                 onrow  == self.closest_beacon[2] = row
                 first  == IF onrow /\ self.closest_beacon[1] = first0
                           THEN first0 + 1 ELSE first0
                 last   == IF onrow /\ self.closest_beacon[2] = last0
                           THEN last0 - 1 ELSE last0
             IN  Some(new(first, last))

\* range that leaves the beacon's column in the interval
range_no_trim(self, row) ==
    LET min_distance == abs_diff(row, self.sensor[2])
        max_distance == distance(self)
    IN  IF max_distance < min_distance
        THEN None
        ELSE LET offset == max_distance - min_distance
             IN  Some(new(self.sensor[1] - offset, self.sensor[1] + offset))

range(self, row) ==
    LET min_distance == abs_diff(row, self.sensor[2])
        max_distance == distance(self)
    IN  IF max_distance < min_distance
        THEN None
        ELSE LET offset == max_distance - min_distance
                 first0 == self.sensor[1] - offset
                 last0  == self.sensor[1] + offset
                 onrow  == self.closest_beacon[2] = row
                 first  == IF onrow /\ self.closest_beacon[1] = first0
                           THEN first0 + 1 ELSE first0
                 \* the source compares closest_beacon.1, the beacon's y
                 last   == IF onrow /\ self.closest_beacon[2] = last0
                           THEN last0 - 1 ELSE last0
             IN  IF first > last THEN None ELSE Some(new(first, last))

(***************************************************************************)
(* SensorRange::join_all. The iterator returned by join_all is the record *)
(* [range, prev, out]: the rest of the input iterator, the accumulator     *)
(* captured by the from_fn closure, and what flatten() has yielded so far. *)
(***************************************************************************)
\* lines 154-155: into_iter() and the first next()
join_all_start(input) ==
    [range |-> IF input = <<>> THEN <<>> ELSE Tail(input),
     prev  |-> IF input = <<>> THEN None ELSE Some(Head(input)),
     out   |-> <<>>]

\* the closure returned None: from_fn is exhausted
join_all_done(it) == it.prev = None

\* join_all_next without the last accumulator: an exhausted input ends the
\* iteration and yields nothing
join_all_next_drop(it) ==
    LET prev2 == it.prev[1]
    IN  IF it.range = <<>>
        THEN [range |-> <<>>, prev |-> None, out |-> it.out]
        ELSE LET current == Head(it.range)
                 joined  == join(prev2, current)
                 first   == joined[1]
                 second  == joined[2]
             IN  IF second # None
                 THEN [range |-> Tail(it.range), prev |-> second,
                       out |-> Append(it.out, first)]
                 ELSE [range |-> Tail(it.range), prev |-> Some(first),
                       out |-> it.out]

\* join_all_next that keeps the old accumulator after a merge
join_all_next_no_extend(it) ==
    LET prev2 == it.prev[1]
    IN  IF it.range = <<>>
        THEN [range |-> <<>>, prev |-> None, out |-> Append(it.out, prev2)]
        ELSE LET current == Head(it.range)
                 joined  == join(prev2, current)
                 first   == joined[1]
                 second  == joined[2]
             IN  IF second # None
                 THEN [range |-> Tail(it.range), prev |-> second,
                       out |-> Append(it.out, first)]
                 ELSE [range |-> Tail(it.range), prev |-> Some(prev2),
                       out |-> it.out]

\* one call of the from_fn closure (lines 158-175) followed by flatten()
join_all_next(it) ==
    LET prev2 == it.prev[1]
    IN  IF it.range = <<>>
        THEN [range |-> <<>>, prev |-> None, out |-> Append(it.out, prev2)]
        ELSE LET current == Head(it.range)
                 joined  == join(prev2, current)
                 first   == joined[1]
                 second  == joined[2]
             IN  IF second # None
                 THEN [range |-> Tail(it.range), prev |-> second,
                       out |-> Append(it.out, first)]
                 ELSE [range |-> Tail(it.range), prev |-> Some(first),
                       out |-> it.out]

RECURSIVE join_all_run(_)
join_all_run(it) == IF join_all_done(it) THEN it.out ELSE join_all_run(join_all_next(it))

\* join_all(..).collect::<Vec<_>>()
join_all(input) == join_all_run(join_all_start(input))

(***************************************************************************)
(* BTreeSet<SensorRange>::iter(): ascending in the order of cmp.           *)
(***************************************************************************)
RECURSIVE iter(_)
iter(set) ==
    IF set = {}
    THEN <<>>
    ELSE LET least == CHOOSE a \in set : \A b \in set : cmp(a, b) # "Greater"
         IN  <<least>> \o iter(set \ {least})

\* BTreeSet::insert on the ascending sequence of the set's elements: the
\* place is found with cmp, and a value comparing Equal to an element of
\* the set is not inserted
RECURSIVE btree_insert(_, _)
btree_insert(set, v) ==
    IF set = <<>>
    THEN <<v>>
    ELSE LET ord == cmp(v, Head(set))
         IN  IF ord = "Less" THEN <<v>> \o set
             ELSE IF ord = "Equal" THEN set
             ELSE <<Head(set)>> \o btree_insert(Tail(set), v)

\* the Some(..) among the values of an Option, as a set
some_of(opt) == IF opt = None THEN {} ELSE {opt[1]}

(***************************************************************************)
(* answer: the pieces of lines 206-290.                                    *)
(***************************************************************************)
\* the multiplier of line 282
FreqMul == 4000000

\* a u64 holding k * 2^64 + r
u64(k, r) == [k |-> k, r |-> r]

\* lines 253-258: the BTreeSet filled from every sensor's range(y)
row_set(ss, row) == UNION { some_of(range(ss[n], row)) : n \in 1..Len(ss) }

\* .map(|range| range.clamp(a, b)).collect::<Vec<_>>()
map_clamp(seq, a, b) == [n \in 1..Len(seq) |-> clamp(seq[n], a, b)]

\* lines 253-262: the closure's ranges for row y under limit lim
row_ranges(ss, row, lim) == map_clamp(join_all(iter(row_set(ss, row))), 0, lim)

\* slots_of that takes every beacon off twice
slots_of_twice(bs, r, row) ==
    len(r) - 2 * Cardinality({b \in bs : b[2] = row /\ contains(r, b[1])})

\* lines 229-234: len() less one per beacon of the set on the row and inside
slots_of(bs, r, row) ==
    len(r) - Cardinality({b \in bs : b[2] = row /\ contains(r, b[1])})

RECURSIVE sum_slots(_, _, _)
sum_slots(bs, seq, row) ==
    IF seq = <<>>
    THEN 0
    ELSE slots_of(bs, Head(seq), row) + sum_slots(bs, Tail(seq), row)

\* lines 225-239
count_slots(bs, rs, row) == sum_slots(bs, join_all(iter(rs)), row)

(***************************************************************************)
(* The inputs.                                                             *)
(***************************************************************************)
Positions == {<<x, y0>> : x \in (0 - MaxX)..MaxX, y0 \in 0..MaxY}

Offsets ==
    {d \in ((0 - MaxReach)..MaxReach) \X ((0 - MaxReach)..MaxReach) :
        abs_diff(d[1], 0) + abs_diff(d[2], 0) <= MaxReach}

Sensors ==
    {[sensor |-> p, closest_beacon |-> <<p[1] + d[1], p[2] + d[2]>>] :
        p \in Positions, d \in Offsets}

\* an input line is the Sensor it parses to, or None when from_str rejects it
Inputs ==
    UNION {[1..n -> {Some(s) : s \in Sensors}] : n \in 0..MaxSensors}
        \cup {<<None>>}

Rows == (0 - MaxReach - 1)..(MaxY + MaxReach + 1)

\* the coordinates of the sensors and of everything they reach
Coords == ((0 - MaxX - MaxReach)..(MaxX + MaxReach)) \X Rows

Intervals == {r \in [first : 0..MaxCol, last : 0..MaxCol] : r.first <= r.last}

\* every SensorRange over 0..MaxCol, first <= last or not
AnyIntervals == [first : 0..MaxCol, last : 0..MaxCol]

IntervalSeqs == UNION {[1..n -> Intervals] : n \in 0..MaxLen}

(***************************************************************************)
(* State.                                                                  *)
(***************************************************************************)
VARIABLES
    pc,           \* where the run stands
    input,        \* answer: the lines of the input
    sensors,      \* answer: Vec<Sensor> (line 207)
    sensor_idx,   \* answer: position of the for loop of line 215
    beacons,      \* answer: HashSet<Coord> (line 211)
    ranges,       \* answer: [BTreeSet; 2] (line 212)
    total_slots,  \* answer: line 241
    i,            \* answer: the for loop of line 250
    y,            \* answer: the row find_map is at (line 252)
    found,        \* answer: Option<(y, ranges)> (line 252)
    frequency,    \* answer: [u64; 2] (line 248)
    result,       \* answer: the returned aoc::Result
    arg_sensor,   \* Sensor::range: self
    arg_row,      \* Sensor::range: row
    ret_range,    \* Sensor::range: the returned Option<SensorRange>
    arg_self,     \* join: self
    arg_rhs,      \* join: rhs
    ret_join,     \* join: the returned pair
    arg_input,    \* join_all: the input sequence
    it,           \* join_all: the iterator [range, prev, out]
    heights,      \* answer: the part-A rows (line 213); indexed 1, 2 for 0, 1
    limit,        \* answer: the part-B limits (line 246); indexed 1, 2 for 0, 1
    arg_order,    \* one row's merge: the intervals in the order supplied
    tree,         \* one row's merge: the BTreeSet, as its ascending sequence
    tree_idx,     \* one row's merge: how many intervals have been inserted
    ret_merge,    \* one row's merge: join_all over the set, collected
    arg_a,        \* cmp: three intervals to compare pairwise
    arg_b,
    arg_c,
    ret_cmp,      \* cmp: the Ordering of each pair
    arg_from,     \* distance_to: self
    arg_to,       \* distance_to: to
    ret_distance, \* distance_to: both directions
    callee,       \* fixed-width arithmetic: the function called
    overflow,     \* fixed-width arithmetic: a result left its integer type
    ret_width,    \* fixed-width arithmetic: the value returned
    arg_left,     \* RangeExt::intersects: self
    arg_right,    \* RangeExt::intersects: rhs
    ret_intersects, \* RangeExt::intersects: both directions
    moves,        \* d09 answer: the lines of the input
    move_idx,     \* d09 answer: position of the for loop of line 249
    movement,     \* d09 answer: Option<Movement> (line 250)
    rope,         \* d09 answer: Rope::new(2) (line 243); Rope::apply: self
    rope2,        \* d09 answer: Rope::new(10) (line 244)
    positions,    \* d09 answer: HashSet<Tail> (line 245)
    positions2,   \* d09 answer: HashSet<Tail> (line 247)
    answer9       \* d09 answer: the returned aoc::Result

answer_vars ==
    <<input, sensors, sensor_idx, beacons, ranges, total_slots, i, y, found,
      frequency, result, heights, limit>>

range_vars == <<arg_sensor, arg_row, ret_range>>

join_vars == <<arg_self, arg_rhs, ret_join>>

join_all_vars == <<arg_input, it>>

merge_vars == <<arg_order, tree, tree_idx, ret_merge>>

cmp_vars == <<arg_a, arg_b, arg_c, ret_cmp>>

distance_vars == <<arg_from, arg_to, ret_distance>>

width_vars == <<callee, overflow, ret_width>>

intersects_vars == <<arg_left, arg_right, ret_intersects>>

rope_vars ==
    <<moves, move_idx, movement, rope, rope2, positions, positions2, answer9>>

\* the state of the calls checked on their own, other than range, join, join_all
unit_vars ==
    <<merge_vars, cmp_vars, distance_vars, width_vars, intersects_vars, rope_vars>>

vars == <<pc, answer_vars, range_vars, join_vars, join_all_vars, unit_vars>>

AnswerIdle ==
    /\ input = <<>> /\ sensors = <<>> /\ sensor_idx = 0 /\ beacons = {}
    /\ ranges = <<{}, {}>> /\ total_slots = <<0, 0>> /\ i = 0 /\ y = 0
    /\ found = None /\ frequency = <<u64(0, 0), u64(0, 0)>> /\ result = None
    /\ heights = <<0, 0>> /\ limit = <<0, 0>>

RangeIdle == arg_sensor = None /\ arg_row = 0 /\ ret_range = None

JoinIdle == arg_self = None /\ arg_rhs = None /\ ret_join = None

JoinAllIdle == arg_input = <<>> /\ it = None

MergeIdle == arg_order = <<>> /\ tree = <<>> /\ tree_idx = 0 /\ ret_merge = None

CmpIdle == arg_a = None /\ arg_b = None /\ arg_c = None /\ ret_cmp = None

DistanceIdle == arg_from = None /\ arg_to = None /\ ret_distance = None

WidthIdle == callee = "" /\ overflow = FALSE /\ ret_width = None

IntersectsIdle == arg_left = None /\ arg_right = None /\ ret_intersects = None

RopeIdle ==
    /\ moves = <<>> /\ move_idx = 0 /\ movement = None
    /\ rope = None /\ rope2 = None
    /\ positions = {} /\ positions2 = {} /\ answer9 = None

UnitIdle ==
    MergeIdle /\ CmpIdle /\ DistanceIdle /\ WidthIdle /\ IntersectsIdle /\ RopeIdle

(***************************************************************************)
(* answer (lines 206-290) as a run.                                        *)
(***************************************************************************)
Init ==
    /\ pc = "parse"
    /\ input \in Inputs
    /\ sensors = <<>> /\ sensor_idx = 0 /\ beacons = {}
    /\ ranges = <<{}, {}>> /\ total_slots = <<0, 0>> /\ i = 0 /\ y = 0
    /\ found = None /\ frequency = <<u64(0, 0), u64(0, 0)>> /\ result = None
    /\ heights = <<HeightA, HeightB>>
    /\ limit = <<LimitA, LimitB>>
    /\ RangeIdle /\ JoinIdle /\ JoinAllIdle /\ UnitIdle

\* lines 207-209: parse every line, the first Err is returned by `?`
Parse ==
    /\ pc = "parse"
    /\ \/ /\ \E n \in 1..Len(input) : input[n] = None
          /\ result' = [kind |-> "Err", error |-> "Parsing"]
          /\ pc' = "done"
          /\ UNCHANGED <<sensors, sensor_idx>>
       \/ /\ \A n \in 1..Len(input) : input[n] # None
          /\ sensors' = [n \in 1..Len(input) |-> input[n][1]]
          /\ sensor_idx' = 1
          /\ pc' = IF Len(input) = 0 THEN "count" ELSE "collect"
          /\ UNCHANGED result
    /\ UNCHANGED <<input, beacons, ranges, total_slots, i, y, found, frequency>>
    /\ UNCHANGED <<heights, limit, range_vars, join_vars, join_all_vars, unit_vars>>

\* lines 215-223: one turn of the loop over the sensors
Collect ==
    /\ pc = "collect"
    /\ LET sensor == sensors[sensor_idx]
       IN  /\ beacons' = beacons \cup {sensor.closest_beacon}
           /\ ranges' = [n \in 1..2 |->
                            ranges[n] \cup some_of(range(sensor, heights[n]))]
    /\ sensor_idx' = sensor_idx + 1
    /\ pc' = IF sensor_idx = Len(sensors) THEN "count" ELSE "collect"
    /\ UNCHANGED <<input, sensors, total_slots, i, y, found, frequency, result>>
    /\ UNCHANGED <<heights, limit, range_vars, join_vars, join_all_vars, unit_vars>>

\* lines 241-248: both counts, then the first turn of the loop of line 250
CountSlots ==
    /\ pc = "count"
    /\ total_slots' = [n \in 1..2 |-> count_slots(beacons, ranges[n], heights[n])]
    /\ i' = 1
    /\ y' = 0
    /\ pc' = "search"
    /\ UNCHANGED <<input, sensors, sensor_idx, beacons, ranges, found, frequency,
                   result>>
    /\ UNCHANGED <<heights, limit, range_vars, join_vars, join_all_vars, unit_vars>>

\* SearchRow that moves two rows on after a row that is not accepted
SearchRowSkipping ==
    /\ pc = "search"
    /\ LET row == row_ranges(sensors, y, limit[i])
       IN  \/ /\ Len(row) > 1
              /\ found' = Some([y |-> y, ranges |-> row])
              /\ pc' = "report"
              /\ UNCHANGED y
           \/ /\ Len(row) <= 1
              /\ y < limit[i]
              /\ y' = min(y + 2, limit[i])
              /\ UNCHANGED <<found, pc>>
           \/ /\ Len(row) <= 1
              /\ y = limit[i]
              /\ found' = None
              /\ pc' = "report"
              /\ UNCHANGED y
    /\ UNCHANGED <<input, sensors, sensor_idx, beacons, ranges, total_slots, i,
                   frequency, result>>
    /\ UNCHANGED <<heights, limit, range_vars, join_vars, join_all_vars, unit_vars>>

\* lines 252-275: find_map calls the closure on row y; Some ends the search,
\* None moves to the next row or, after row limit[i], ends it with None
SearchRow ==
    /\ pc = "search"
    /\ LET row == row_ranges(sensors, y, limit[i])
       IN  \/ /\ Len(row) > 1
              /\ found' = Some([y |-> y, ranges |-> row])
              /\ pc' = "report"
              /\ UNCHANGED y
           \/ /\ Len(row) <= 1
              /\ y < limit[i]
              /\ y' = y + 1
              /\ UNCHANGED <<found, pc>>
           \/ /\ Len(row) <= 1
              /\ y = limit[i]
              /\ found' = None
              /\ pc' = "report"
              /\ UNCHANGED y
    /\ UNCHANGED <<input, sensors, sensor_idx, beacons, ranges, total_slots, i,
                   frequency, result>>
    /\ UNCHANGED <<heights, limit, range_vars, join_vars, join_all_vars, unit_vars>>

\* line 278: the column reported for an accepted row
gap_x(f) == f[1].ranges[1].last + 1

\* the end of one turn of the loop of line 250
NextLimit ==
    /\ i' = i + 1
    /\ y' = 0
    /\ found' = None
    /\ pc' = IF i = 2 THEN "return" ELSE "search"

\* lines 277-283.  x as u64 of a negative x is 2^64 + x, and the product
\* with 4000000 then leaves u64: a build with overflow checks panics, a
\* build without them keeps the value modulo 2^64
Report ==
    /\ pc = "report"
    /\ \/ /\ found = None
          /\ UNCHANGED frequency
          /\ NextLimit
       \/ /\ found # None
          /\ gap_x(found) >= 0
          /\ frequency' = [frequency EXCEPT
                              ![i] = u64(0, gap_x(found) * FreqMul + found[1].y)]
          /\ NextLimit
       \/ /\ found # None
          /\ gap_x(found) < 0
          /\ frequency' = [frequency EXCEPT
                              ![i] = u64(1, gap_x(found) * FreqMul + found[1].y)]
          /\ NextLimit
       \/ /\ found # None
          /\ gap_x(found) < 0
          /\ pc' = "panicked"
          /\ UNCHANGED <<i, y, found, frequency>>
    /\ UNCHANGED <<input, sensors, sensor_idx, beacons, ranges, total_slots,
                   result>>
    /\ UNCHANGED <<heights, limit, range_vars, join_vars, join_all_vars, unit_vars>>

\* lines 286-289
Return ==
    /\ pc = "return"
    /\ result' = [kind |-> "Ok", part1 |-> total_slots, part2 |-> frequency]
    /\ pc' = "done"
    /\ UNCHANGED <<input, sensors, sensor_idx, beacons, ranges, total_slots, i, y,
                   found, frequency>>
    /\ UNCHANGED <<heights, limit, range_vars, join_vars, join_all_vars, unit_vars>>

Next == Parse \/ Collect \/ CountSlots \/ SearchRow \/ Report \/ Return

Spec == Init /\ [][Next]_vars

(***************************************************************************)
(* d15_example (lines 296-305): answer with the heights and limits of      *)
(* lines 213 and 246, on the example input in every rotation of its lines  *)
(* and on three more inputs that take the other branches of answer.        *)
(***************************************************************************)
\* the Ok(Sensor) that from_str returns for a well-formed line
line(sx, sy, bx, by) ==
    Some([sensor |-> <<sx, sy>>, closest_beacon |-> <<bx, by>>])

\* input/examples/d15, the 14 lines of the puzzle's public example
d15_example ==
    << line(2, 18, -2, 15),  line(9, 16, 10, 16),  line(13, 2, 15, 3),
       line(12, 14, 10, 16), line(10, 20, 10, 16), line(14, 17, 10, 16),
       line(8, 7, 2, 10),    line(2, 0, 2, 10),    line(0, 11, 2, 10),
       line(20, 14, 25, 17), line(17, 20, 21, 22), line(16, 7, 15, 3),
       line(14, 3, 15, 3),   line(20, 1, 15, 3) >>

rotate(seq, k) == [n \in 1..Len(seq) |-> seq[((n + k - 1) % Len(seq)) + 1]]

\* a line that from_str rejects
d15_bad_line == <<line(8, 7, 2, 10), None>>

\* two separate intervals on row 0, the first left of column 0
d15_left_gap == <<line(-10, 0, -10, 1), line(5, 0, 5, 1)>>

\* two separate intervals first on row 24, below the first limit
d15_late_gap == <<line(0, 25, 0, 26), line(5, 25, 5, 26)>>

example_inputs ==
    {rotate(d15_example, k) : k \in 0..(Len(d15_example) - 1)}
        \cup {d15_bad_line, d15_left_gap, d15_late_gap}

InitExample ==
    /\ pc = "parse"
    /\ input \in example_inputs
    /\ sensors = <<>> /\ sensor_idx = 0 /\ beacons = {}
    /\ ranges = <<{}, {}>> /\ total_slots = <<0, 0>> /\ i = 0 /\ y = 0
    /\ found = None /\ frequency = <<u64(0, 0), u64(0, 0)>> /\ result = None
    /\ heights = <<10, 2000000>>
    /\ limit = <<20, 4000000>>
    /\ RangeIdle /\ JoinIdle /\ JoinAllIdle /\ UnitIdle

SpecExample == InitExample /\ [][Next]_vars

(***************************************************************************)
(* Sensor::range (lines 26-53) called on one sensor and one row.           *)
(***************************************************************************)
InitRange ==
    /\ pc = "range_call"
    /\ arg_sensor \in Sensors
    /\ arg_row \in Rows
    /\ ret_range = None
    /\ AnswerIdle /\ JoinIdle /\ JoinAllIdle /\ UnitIdle

RangeCall ==
    /\ pc = "range_call"
    /\ ret_range' = range(arg_sensor, arg_row)
    /\ pc' = "range_ret"
    /\ UNCHANGED <<arg_sensor, arg_row, answer_vars, join_vars, join_all_vars,
                   unit_vars>>

SpecRange == InitRange /\ [][RangeCall]_vars

(***************************************************************************)
(* tests::ranges (lines 311-328): the two sensors of the test, range       *)
(* called on the rows of the test and on the rows around them.             *)
(***************************************************************************)
ranges_sensor_a == [sensor |-> <<8, 7>>, closest_beacon |-> <<2, 10>>]

ranges_sensor_b == [sensor |-> <<5, 5>>, closest_beacon |-> <<5, 10>>]

ranges_rows == (9 - TestSpan)..(11 + TestSpan)

InitRangeTest ==
    /\ pc = "range_call"
    /\ arg_sensor \in {ranges_sensor_a, ranges_sensor_b}
    /\ arg_row \in ranges_rows
    /\ ret_range = None
    /\ AnswerIdle /\ JoinIdle /\ JoinAllIdle /\ UnitIdle

SpecRangeTest == InitRangeTest /\ [][RangeCall]_vars

(***************************************************************************)
(* SensorRange::join (lines 140-149) called on two intervals.              *)
(***************************************************************************)
InitJoin ==
    /\ pc = "join_call"
    /\ arg_self \in Intervals
    /\ arg_rhs \in Intervals
    /\ ret_join = None
    /\ AnswerIdle /\ RangeIdle /\ JoinAllIdle /\ UnitIdle

JoinCall ==
    /\ pc = "join_call"
    /\ ret_join' = join(arg_self, arg_rhs)
    /\ pc' = "join_ret"
    /\ UNCHANGED <<arg_self, arg_rhs, answer_vars, range_vars, join_all_vars,
                   unit_vars>>

SpecJoin == InitJoin /\ [][JoinCall]_vars

(***************************************************************************)
(* SensorRange::join_all (lines 151-178) driven to exhaustion, one call of *)
(* the from_fn closure at a time.                                          *)
(***************************************************************************)
InitJoinAll ==
    /\ pc = "join_all_call"
    /\ arg_input \in IntervalSeqs
    /\ it = None
    /\ AnswerIdle /\ RangeIdle /\ JoinIdle /\ UnitIdle

\* lines 154-155
JoinAllStart ==
    /\ pc = "join_all_call"
    /\ it' = join_all_start(arg_input)
    /\ pc' = "join_all_iter"
    /\ UNCHANGED <<arg_input, answer_vars, range_vars, join_vars, unit_vars>>

\* lines 158-175, prev is Some
JoinAllNext ==
    /\ pc = "join_all_iter"
    /\ ~join_all_done(it)
    /\ it' = join_all_next(it)
    /\ UNCHANGED <<pc, arg_input, answer_vars, range_vars, join_vars, unit_vars>>

\* line 158, prev is None: `?` returns None and the iterator is finished
JoinAllEnd ==
    /\ pc = "join_all_iter"
    /\ join_all_done(it)
    /\ pc' = "join_all_ret"
    /\ UNCHANGED <<it, arg_input, answer_vars, range_vars, join_vars, unit_vars>>

NextJoinAll == JoinAllStart \/ JoinAllNext \/ JoinAllEnd

SpecJoinAll == InitJoinAll /\ [][NextJoinAll]_vars

(***************************************************************************)
(* Either call: range on one sensor and one row, or join_all on a sequence *)
(* of intervals with first <= last.                                        *)
(***************************************************************************)
InitRangeOrJoinAll == InitRange \/ InitJoinAll

NextRangeOrJoinAll == RangeCall \/ NextJoinAll

SpecRangeOrJoinAll == InitRangeOrJoinAll /\ [][NextRangeOrJoinAll]_vars

(***************************************************************************)
(* One row's merge as answer does it (lines 253-262): every interval is    *)
(* inserted into the BTreeSet in the order supplied, then join_all runs    *)
(* over the set.                                                           *)
(***************************************************************************)
InitMerge ==
    /\ pc = "merge_insert"
    /\ arg_order \in IntervalSeqs
    /\ tree = <<>> /\ tree_idx = 0 /\ ret_merge = None
    /\ AnswerIdle /\ RangeIdle /\ JoinIdle /\ JoinAllIdle
    /\ CmpIdle /\ DistanceIdle /\ WidthIdle /\ IntersectsIdle /\ RopeIdle

\* line 256: ranges.insert(range)
MergeInsert ==
    /\ pc = "merge_insert"
    /\ tree_idx < Len(arg_order)
    /\ tree' = btree_insert(tree, arg_order[tree_idx + 1])
    /\ tree_idx' = tree_idx + 1
    /\ UNCHANGED <<pc, arg_order, ret_merge>>
    /\ UNCHANGED <<answer_vars, range_vars, join_vars, join_all_vars>>
    /\ UNCHANGED <<cmp_vars, distance_vars, width_vars, intersects_vars, rope_vars>>

\* line 260: join_all(ranges.iter().cloned()), collected
MergeJoinAll ==
    /\ pc = "merge_insert"
    /\ tree_idx = Len(arg_order)
    /\ ret_merge' = Some(join_all(tree))
    /\ pc' = "merge_ret"
    /\ UNCHANGED <<arg_order, tree, tree_idx>>
    /\ UNCHANGED <<answer_vars, range_vars, join_vars, join_all_vars>>
    /\ UNCHANGED <<cmp_vars, distance_vars, width_vars, intersects_vars, rope_vars>>

NextMerge == MergeInsert \/ MergeJoinAll

SpecMerge == InitMerge /\ [][NextMerge]_vars

(***************************************************************************)
(* impl Ord for SensorRange (lines 119-126) called on the pairs of three   *)
(* intervals.                                                              *)
(***************************************************************************)
InitCmp ==
    /\ pc = "cmp_call"
    /\ arg_a \in AnyIntervals
    /\ arg_b \in AnyIntervals
    /\ arg_c \in AnyIntervals
    /\ ret_cmp = None
    /\ AnswerIdle /\ RangeIdle /\ JoinIdle /\ JoinAllIdle
    /\ MergeIdle /\ DistanceIdle /\ WidthIdle /\ IntersectsIdle /\ RopeIdle

CmpCall ==
    /\ pc = "cmp_call"
    /\ ret_cmp' = [ab |-> cmp(arg_a, arg_b), ba |-> cmp(arg_b, arg_a),
                   bc |-> cmp(arg_b, arg_c), ac |-> cmp(arg_a, arg_c)]
    /\ pc' = "cmp_ret"
    /\ UNCHANGED <<arg_a, arg_b, arg_c>>
    /\ UNCHANGED <<answer_vars, range_vars, join_vars, join_all_vars>>
    /\ UNCHANGED <<merge_vars, distance_vars, width_vars, intersects_vars, rope_vars>>

SpecCmp == InitCmp /\ [][CmpCall]_vars

(***************************************************************************)
(* Coord::distance_to (lines 101-103) called in both directions.           *)
(***************************************************************************)
InitDistance ==
    /\ pc = "distance_call"
    /\ arg_from \in Coords
    /\ arg_to \in Coords
    /\ ret_distance = None
    /\ AnswerIdle /\ RangeIdle /\ JoinIdle /\ JoinAllIdle
    /\ MergeIdle /\ CmpIdle /\ WidthIdle /\ IntersectsIdle /\ RopeIdle

DistanceCall ==
    /\ pc = "distance_call"
    /\ ret_distance' = [ab |-> distance_to(arg_from, arg_to),
                        ba |-> distance_to(arg_to, arg_from)]
    /\ pc' = "distance_ret"
    /\ UNCHANGED <<arg_from, arg_to>>
    /\ UNCHANGED <<answer_vars, range_vars, join_vars, join_all_vars>>
    /\ UNCHANGED <<merge_vars, cmp_vars, width_vars, intersects_vars, rope_vars>>

SpecDistance == InitDistance /\ [][DistanceCall]_vars

(***************************************************************************)
(* distance_to, range, join, len and clamp on integers of IntBits bits:    *)
(* i32 is int_min..int_max, u32 is 0..uint_max.  Each operator returns the *)
(* value a build without overflow checks computes and whether a result     *)
(* left its type on the way, where a build with overflow checks panics.    *)
(***************************************************************************)
int_min == 0 - 2 ^ (IntBits - 1)

int_max == 2 ^ (IntBits - 1) - 1

uint_max == 2 ^ IntBits - 1

fits_i32(v) == int_min <= v /\ v <= int_max

fits_u32(v) == 0 <= v /\ v <= uint_max

wrap_i32(v) == ((v - int_min) % (2 ^ IntBits)) + int_min

wrap_u32(v) == v % (2 ^ IntBits)

\* line 102
distance_to_w(self, to) ==
    LET sum == abs_diff(self[1], to[1]) + abs_diff(self[2], to[2])
    IN  [value |-> wrap_u32(sum), overflow |-> ~fits_u32(sum)]

\* lines 26-53
range_w(self, row) ==
    LET min_distance == abs_diff(row, self.sensor[2])
        d            == distance_to_w(self.sensor, self.closest_beacon)
        max_distance == d.value
    IN  IF max_distance < min_distance
        THEN [value |-> None, overflow |-> d.overflow]
        ELSE LET offset_u == max_distance - min_distance
                 offset   == wrap_i32(offset_u)
                 first0   == self.sensor[1] - offset
                 last0    == self.sensor[1] + offset
                 onrow    == self.closest_beacon[2] = row
                 inc      == onrow /\ self.closest_beacon[1] = wrap_i32(first0)
                 dec      == onrow /\ self.closest_beacon[2] = wrap_i32(last0)
                 first1   == IF inc THEN wrap_i32(first0) + 1 ELSE wrap_i32(first0)
                 last1    == IF dec THEN wrap_i32(last0) - 1 ELSE wrap_i32(last0)
                 first    == wrap_i32(first1)
                 last     == wrap_i32(last1)
             IN  [value |-> IF first > last THEN None ELSE Some(new(first, last)),
                  overflow |-> \/ d.overflow
                               \/ ~fits_i32(offset_u)
                               \/ ~fits_i32(first0) \/ ~fits_i32(last0)
                               \/ ~fits_i32(first1) \/ ~fits_i32(last1)]

\* lines 140-149
join_w(self, rhs) ==
    LET next == self.last + 1
    IN  [value |-> IF wrap_i32(next) < rhs.first
                   THEN <<self, Some(rhs)>>
                   ELSE <<new(self.first, max(self.last, rhs.last)), None>>,
         overflow |-> ~fits_i32(next)]

\* lines 180-182
len_w(self) ==
    LET next == self.last + 1
        diff == wrap_i32(next) - self.first
    IN  [value |-> wrap_u32(wrap_i32(diff) + 2 ^ IntBits),
         overflow |-> ~fits_i32(next) \/ ~fits_i32(diff)]

\* lines 184-186
clamp_w(self, a, b) == [value |-> clamp(self, a, b), overflow |-> FALSE]

WInts == int_min..int_max

WCoords == WInts \X WInts

WSensors == {[sensor |-> p, closest_beacon |-> b] : p \in WCoords, b \in WCoords}

WIntervals == {r \in {new(f, l) : f \in WInts, l \in WInts} : r.first <= r.last}

InitWidth ==
    /\ pc = "width_call"
    /\ overflow = FALSE /\ ret_width = None
    /\ ret_distance = None /\ ret_range = None /\ ret_join = None
    /\ arg_c = None /\ ret_cmp = None
    /\ AnswerIdle /\ JoinAllIdle /\ MergeIdle /\ IntersectsIdle /\ RopeIdle
    /\ \/ /\ callee = "distance_to"
          /\ arg_from \in WCoords /\ arg_to \in WCoords
          /\ arg_sensor = None /\ arg_row = 0
          /\ arg_self = None /\ arg_rhs = None /\ arg_a = None /\ arg_b = None
       \/ /\ callee = "range"
          /\ arg_sensor \in WSensors /\ arg_row \in WInts
          /\ arg_from = None /\ arg_to = None
          /\ arg_self = None /\ arg_rhs = None /\ arg_a = None /\ arg_b = None
       \/ /\ callee = "join"
          /\ arg_self \in WIntervals /\ arg_rhs \in WIntervals
          /\ arg_from = None /\ arg_to = None
          /\ arg_sensor = None /\ arg_row = 0 /\ arg_a = None /\ arg_b = None
       \/ /\ callee = "len"
          /\ arg_self \in WIntervals
          /\ arg_rhs = None /\ arg_from = None /\ arg_to = None
          /\ arg_sensor = None /\ arg_row = 0 /\ arg_a = None /\ arg_b = None
       \/ /\ callee = "clamp"
          /\ arg_self \in WIntervals
          /\ arg_a \in WInts /\ arg_b \in WInts
          /\ arg_rhs = None /\ arg_from = None /\ arg_to = None
          /\ arg_sensor = None /\ arg_row = 0

\* the call returns; after an overflow either the wrapped value is returned
\* or the call panics, as the build has overflow checks or not
WidthReturn(res) ==
    /\ pc = "width_call"
    /\ overflow' = res.overflow
    /\ \/ /\ ret_width' = Some(res.value)
          /\ pc' = "width_ret"
       \/ /\ res.overflow
          /\ pc' = "panicked"
          /\ UNCHANGED ret_width
    /\ UNCHANGED <<callee, answer_vars, range_vars, join_vars, join_all_vars>>
    /\ UNCHANGED <<merge_vars, cmp_vars, distance_vars, intersects_vars, rope_vars>>

WidthDistanceTo ==
    /\ callee = "distance_to"
    /\ WidthReturn(distance_to_w(arg_from, arg_to))

WidthRange ==
    /\ callee = "range"
    /\ WidthReturn(range_w(arg_sensor, arg_row))

WidthJoin ==
    /\ callee = "join"
    /\ WidthReturn(join_w(arg_self, arg_rhs))

WidthLen ==
    /\ callee = "len"
    /\ WidthReturn(len_w(arg_self))

WidthClamp ==
    /\ callee = "clamp"
    /\ WidthReturn(clamp_w(arg_self, arg_a, arg_b))

NextWidth == WidthDistanceTo \/ WidthRange \/ WidthJoin \/ WidthLen \/ WidthClamp

SpecWidth == InitWidth /\ [][NextWidth]_vars

(***************************************************************************)
(* RangeExt of d04.rs (lines 55-75) on RangeInclusive<u32>, a range being  *)
(* the record [start, end]; intersects is called in both directions on the *)
(* ranges of the test of lines 128-147.                                    *)
(***************************************************************************)
\* intersects without its second disjunct
intersects_from_self(self, rhs) ==
    self.start <= rhs.start /\ rhs.start <= self.end

\* lines 63-68
intersects(self, rhs) ==
    \/ self.start <= rhs.start /\ rhs.start <= self.end
    \/ rhs.start <= self.start /\ self.start <= rhs.end

\* lines 70-74
to_set(self) == self.start..self.end

\* a..=b with a <= b
ClosedRanges ==
    {r \in [start : 0..MaxCol, end : 0..MaxCol] : r.start <= r.end}

InitIntersects ==
    /\ pc = "intersects_call"
    /\ arg_left \in ClosedRanges
    /\ arg_right \in ClosedRanges
    /\ ret_intersects = None
    /\ AnswerIdle /\ RangeIdle /\ JoinIdle /\ JoinAllIdle
    /\ MergeIdle /\ CmpIdle /\ DistanceIdle /\ WidthIdle /\ RopeIdle

IntersectsCall ==
    /\ pc = "intersects_call"
    /\ ret_intersects' = [lr |-> intersects(arg_left, arg_right),
                          rl |-> intersects(arg_right, arg_left)]
    /\ pc' = "intersects_ret"
    /\ UNCHANGED <<arg_left, arg_right>>
    /\ UNCHANGED <<answer_vars, range_vars, join_vars, join_all_vars>>
    /\ UNCHANGED <<merge_vars, cmp_vars, distance_vars, width_vars, rope_vars>>

SpecIntersects == InitIntersects /\ [][IntersectsCall]_vars

(***************************************************************************)
(* d09.rs.  A Direction is its name; an Offset is Option<Direction>; a     *)
(* Rope is the record [offsets, tail]: the Offset of every Knot from the   *)
(* head on, and the Tail(x, y) at the end of the chain of Boxes.           *)
(***************************************************************************)
\* lines 71-82
delta(self) ==
    CASE self = "Right"     -> <<1, 0>>
      [] self = "UpRight"   -> <<1, 1>>
      [] self = "Up"        -> <<0, 1>>
      [] self = "UpLeft"    -> <<-1, 1>>
      [] self = "Left"      -> <<-1, 0>>
      [] self = "DownLeft"  -> <<-1, -1>>
      [] self = "Down"      -> <<0, -1>>
      [] self = "DownRight" -> <<1, -1>>

\* from_delta without the arm of (1, 1)
from_delta_no_up_right(d) ==
    CASE d = <<1, 0>>   -> "Right"
      [] d = <<0, 1>>   -> "Up"
      [] d = <<-1, 1>>  -> "UpLeft"
      [] d = <<-1, 0>>  -> "Left"
      [] d = <<-1, -1>> -> "DownLeft"
      [] d = <<0, -1>>  -> "Down"
      [] d = <<1, -1>>  -> "DownRight"
      [] OTHER          -> "panic!"

\* lines 84-96; "panic!" is the arm of line 94
from_delta(d) ==
    CASE d = <<1, 0>>   -> "Right"
      [] d = <<1, 1>>   -> "UpRight"
      [] d = <<0, 1>>   -> "Up"
      [] d = <<-1, 1>>  -> "UpLeft"
      [] d = <<-1, 0>>  -> "Left"
      [] d = <<-1, -1>> -> "DownLeft"
      [] d = <<0, -1>>  -> "Down"
      [] d = <<1, -1>>  -> "DownRight"
      [] OTHER          -> "panic!"

\* lines 133-158
tail_apply(self, direction) ==
    CASE direction = "Right"     -> <<self[1] + 1, self[2]>>
      [] direction = "Up"        -> <<self[1], self[2] + 1>>
      [] direction = "Down"      -> <<self[1], self[2] - 1>>
      [] direction = "Left"      -> <<self[1] - 1, self[2]>>
      [] direction = "UpRight"   -> <<self[1] + 1, self[2] + 1>>
      [] direction = "UpLeft"    -> <<self[1] - 1, self[2] + 1>>
      [] direction = "DownLeft"  -> <<self[1] - 1, self[2] - 1>>
      [] direction = "DownRight" -> <<self[1] + 1, self[2] - 1>>

\* lines 190-206: the arms that move the next knot, as <<head, tail>>
head_tail(new_delta) ==
    CASE new_delta = <<-2, -2>> -> <<"DownLeft", "DownLeft">>
      [] new_delta = <<-1, -2>> -> <<"Down", "DownLeft">>
      [] new_delta = <<0, -2>> -> <<"Down", "Down">>
      [] new_delta = <<1, -2>> -> <<"Down", "DownRight">>
      [] new_delta = <<2, -2>> -> <<"DownRight", "DownRight">>
      [] new_delta = <<2, -1>> -> <<"Right", "DownRight">>
      [] new_delta = <<2, 0>> -> <<"Right", "Right">>
      [] new_delta = <<2, 1>> -> <<"Right", "UpRight">>
      [] new_delta = <<2, 2>> -> <<"UpRight", "UpRight">>
      [] new_delta = <<1, 2>> -> <<"Up", "UpRight">>
      [] new_delta = <<0, 2>> -> <<"Up", "Up">>
      [] new_delta = <<-1, 2>> -> <<"Up", "UpLeft">>
      [] new_delta = <<-2, 2>> -> <<"UpLeft", "UpLeft">>
      [] new_delta = <<-2, 1>> -> <<"Left", "UpLeft">>
      [] new_delta = <<-2, 0>> -> <<"Left", "Left">>
      [] new_delta = <<-2, -1>> -> <<"Left", "DownLeft">>
      [] OTHER            -> None

\* Offset::apply that hands the head's own direction on to the next knot
offset_apply_same_direction(self, direction) ==
    LET self_delta == IF self = None THEN <<0, 0>> ELSE delta(self[1])
        new_delta == <<self_delta[1] + delta(direction)[1],
                 self_delta[2] + delta(direction)[2]>>
    IN  IF head_tail(new_delta) # None
        THEN [offset |-> Some(head_tail(new_delta)[1]),
              propagate |-> Some(direction),
              panicked |-> FALSE]
        ELSE IF new_delta = <<0, 0>>
        THEN [offset |-> None, propagate |-> None, panicked |-> FALSE]
        ELSE [offset |-> Some(from_delta(new_delta)), propagate |-> None,
              panicked |-> from_delta(new_delta) = "panic!"]

\* lines 185-221: the new_delta Offset, the direction handed to the next knot,
\* and whether unreachable!() or the panic!() of from_delta was reached
offset_apply(self, direction) ==
    LET self_delta == IF self = None THEN <<0, 0>> ELSE delta(self[1])
        new_delta == <<self_delta[1] + delta(direction)[1],
                 self_delta[2] + delta(direction)[2]>>
    IN  IF head_tail(new_delta) # None
        THEN [offset |-> Some(head_tail(new_delta)[1]),
              propagate |-> Some(head_tail(new_delta)[2]),
              panicked |-> FALSE]
        ELSE IF new_delta = <<0, 0>>
        THEN [offset |-> None, propagate |-> None, panicked |-> FALSE]
        ELSE IF new_delta[1] \in -1..1 /\ new_delta[2] \in -1..1
        THEN [offset |-> Some(from_delta(new_delta)), propagate |-> None,
              panicked |-> from_delta(new_delta) = "panic!"]
        ELSE [offset |-> self, propagate |-> None, panicked |-> TRUE]

\* lines 105-113 and 167-172: len - 1 knots, then Tail::default()
rope_new(knots) ==
    [offsets |-> [k \in 1..(knots - 1) |-> None], tail |-> <<0, 0>>]

\* lines 122-127
rope_tail(self) == self.tail

\* lines 115-120 and 174-179: the rope after the move of its head, and
\* whether a panic was reached on the way down the chain
RECURSIVE rope_apply(_, _)
rope_apply(self, direction) ==
    IF self.offsets = <<>>
    THEN [rope |-> [offsets |-> <<>>, tail |-> tail_apply(self.tail, direction)],
          panicked |-> FALSE]
    ELSE LET o    == offset_apply(Head(self.offsets), direction)
             next == [offsets |-> Tail(self.offsets), tail |-> self.tail]
             rest == IF o.panicked \/ o.propagate = None
                     THEN [rope |-> next, panicked |-> o.panicked]
                     ELSE rope_apply(next, o.propagate[1])
         IN  [rope |-> [offsets |-> <<o.offset>> \o rest.rope.offsets,
                        tail |-> rest.rope.tail],
              panicked |-> rest.panicked]

\* lines 20-28
moved_once(self) ==
    IF self.amount = 1
    THEN None
    ELSE IF self.amount - 1 >= 0
    THEN Some([amount |-> self.amount - 1, direction |-> self.direction])
    ELSE None

\* lines 33-43 and 60-68: the Ok(Movement) a well-formed line parses to
mv(direction, amount) == Some([amount |-> amount, direction |-> direction])

(***************************************************************************)
(* answer of d09.rs (lines 242-262) as a run, on the input of              *)
(* d09_example_2 and on inputs that take its other branches.               *)
(***************************************************************************)
\* line 283
d09_example_2 ==
    << mv("Right", 5), mv("Up", 8), mv("Left", 8), mv("Down", 3),
       mv("Right", 17), mv("Down", 10), mv("Left", 25), mv("Up", 20) >>

\* a line that from_str rejects after a good one
d09_bad_line == <<mv("Up", 2), None>>

\* an amount of 0
d09_zero == <<mv("Left", 0), mv("Down", 1)>>

D09Inputs == {d09_example_2, d09_bad_line, d09_zero, <<>>}

InitD09 ==
    /\ pc = "d09_for"
    /\ moves \in D09Inputs
    /\ move_idx = 1
    /\ movement = None
    /\ rope = rope_new(2)
    /\ rope2 = rope_new(10)
    /\ positions = {rope_tail(rope_new(2))}
    /\ positions2 = {rope_tail(rope_new(2))}
    /\ answer9 = None
    /\ AnswerIdle /\ RangeIdle /\ JoinIdle /\ JoinAllIdle
    /\ MergeIdle /\ CmpIdle /\ DistanceIdle /\ WidthIdle /\ IntersectsIdle

D09Unchanged ==
    /\ UNCHANGED <<answer_vars, range_vars, join_vars, join_all_vars>>
    /\ UNCHANGED <<merge_vars, cmp_vars, distance_vars, width_vars, intersects_vars>>

\* lines 249-250 and 258-261: the next line, its Err returned by `?`, or
\* the end of the input
D09For ==
    /\ pc = "d09_for"
    /\ \/ /\ move_idx > Len(moves)
          /\ answer9' = [kind |-> "Ok",
                         part1 |-> Cardinality(positions),
                         part2 |-> Cardinality(positions2)]
          /\ pc' = "d09_done"
          /\ UNCHANGED <<move_idx, movement>>
       \/ /\ move_idx <= Len(moves)
          /\ moves[move_idx] = None
          /\ answer9' = [kind |-> "Err", error |-> "Parsing"]
          /\ pc' = "d09_done"
          /\ UNCHANGED <<move_idx, movement>>
       \/ /\ move_idx <= Len(moves)
          /\ moves[move_idx] # None
          /\ movement' = moves[move_idx]
          /\ move_idx' = move_idx + 1
          /\ pc' = "d09_while"
          /\ UNCHANGED answer9
    /\ UNCHANGED <<moves, rope, rope2, positions, positions2>>
    /\ D09Unchanged

\* lines 251-255: one turn of the while loop
D09Tick ==
    /\ pc = "d09_while"
    /\ LET tick == movement[1]
           r1   == rope_apply(rope, tick.direction)
           r2   == rope_apply(rope2, tick.direction)
       IN  \/ /\ ~r1.panicked /\ ~r2.panicked
              /\ rope' = r1.rope
              /\ rope2' = r2.rope
              /\ positions' = positions \cup {rope_tail(r1.rope)}
              /\ positions2' = positions2 \cup {rope_tail(r2.rope)}
              /\ movement' = moved_once(tick)
              /\ pc' = IF moved_once(tick) = None THEN "d09_for" ELSE "d09_while"
           \/ /\ r1.panicked \/ r2.panicked
              /\ pc' = "panicked"
              /\ UNCHANGED <<rope, rope2, positions, positions2, movement>>
    /\ UNCHANGED <<moves, move_idx, answer9>>
    /\ D09Unchanged

NextD09 == D09For \/ D09Tick

SpecD09 == InitD09 /\ [][NextD09]_vars

(***************************************************************************)
(* Rope::apply (lines 115-120) called again and again on a rope of 2 to    *)
(* MaxKnots knots with the directions a line can hold (lines 62-65); the   *)
(* run goes on while the tail is within MaxTail of its start.              *)
(***************************************************************************)
LineDirections == {"Right", "Up", "Down", "Left"}

InitRope ==
    /\ pc = "rope_apply"
    /\ rope \in {rope_new(knots) : knots \in 2..MaxKnots}
    /\ moves = <<>> /\ move_idx = 0 /\ movement = None /\ rope2 = None
    /\ positions = {} /\ positions2 = {} /\ answer9 = None
    /\ AnswerIdle /\ RangeIdle /\ JoinIdle /\ JoinAllIdle
    /\ MergeIdle /\ CmpIdle /\ DistanceIdle /\ WidthIdle /\ IntersectsIdle

RopeApply ==
    /\ pc = "rope_apply"
    /\ \E direction \in LineDirections :
          LET r == rope_apply(rope, direction)
          IN  /\ r.rope.tail[1] \in (0 - MaxTail)..MaxTail
              /\ r.rope.tail[2] \in (0 - MaxTail)..MaxTail
              /\ rope' = r.rope
              /\ pc' = IF r.panicked THEN "panicked" ELSE "rope_apply"
    /\ UNCHANGED <<moves, move_idx, movement, rope2, positions, positions2, answer9>>
    /\ D09Unchanged

SpecRope == InitRope /\ [][RopeApply]_vars

(***************************************************************************)
(* What the properties are stated with: geometry computed from the         *)
(* coordinates alone, independently of range, join and join_all.           *)
(***************************************************************************)
Abs(v) == IF v >= 0 THEN v ELSE 0 - v

Manhattan(a, b) == Abs(a[1] - b[1]) + Abs(a[2] - b[2])

Reach(s) == Manhattan(s.sensor, s.closest_beacon)

InReach(s, p) == Manhattan(s.sensor, p) <= Reach(s)

\* every column a sensor of the inputs can reach
Cols == (0 - MaxX - MaxReach)..(MaxX + MaxReach)

\* the columns of a row that the sensor reaches, its own beacon excepted
RowColumns(s, row) ==
    {x \in Cols : InReach(s, <<x, row>>) /\ s.closest_beacon # <<x, row>>}

ColumnsOf(r) == r.first..r.last

\* the columns of a row reached by some sensor and the beacon of none
CoveredNoBeacon(ss, row) ==
    {x \in Cols :
        /\ \E n \in 1..Len(ss) : InReach(ss[n], <<x, row>>)
        /\ \A n \in 1..Len(ss) : ss[n].closest_beacon # <<x, row>>}

\* the positions of the square [0, lim] x [0, lim] that no sensor reaches
Uncovered(ss, lim) ==
    {p \in (0..lim) \X (0..lim) : \A n \in 1..Len(ss) : ~InReach(ss[n], p)}

\* the position reported for an accepted row (lines 278-280, before the casts)
Reported == <<gap_x(found), found[1].y>>

Accepted == pc = "report" /\ found # None

\* sorted by the interval order
SortedSeq(seq) == \A n \in 1..(Len(seq) - 1) : cmp(seq[n], seq[n + 1]) # "Greater"

\* ascending, pairwise disjoint, at least one integer between neighbours
MergedSeq(seq) == \A n \in 1..(Len(seq) - 1) : seq[n].last + 1 < seq[n + 1].first

(***************************************************************************)
(* C1: for every sensor and row, range returns exactly the columns within  *)
(* the sensor's reach on that row, less the column of its beacon when the  *)
(* beacon is on the row; None iff no column remains.                       *)
(* Stated as claimed; SpecRange violates it.                               *)
(***************************************************************************)
C1_RangeIsReachLessBeacon ==
    pc = "range_ret" =>
        IF RowColumns(arg_sensor, arg_row) = {}
        THEN ret_range = None
        ELSE /\ ret_range # None
             /\ ColumnsOf(ret_range[1]) = RowColumns(arg_sensor, arg_row)

(***************************************************************************)
(* C2: each part-A count equals the number of columns of its row that are  *)
(* within reach of some sensor and are not the beacon of any sensor.       *)
(* Stated as claimed; Spec violates it.                                    *)
(***************************************************************************)
C2_CountIsCoveredNoBeacon ==
    pc \in {"search", "report", "return"} =>
        \A n \in 1..2 :
            total_slots[n] = Cardinality(CoveredNoBeacon(sensors, heights[n]))

(***************************************************************************)
(* C3: when exactly one position of the square is outside every sensor's   *)
(* reach, the search ends with that position.                              *)
(* Stated as claimed; Spec violates it.                                    *)
(***************************************************************************)
C3_SearchFindsTheUncovered ==
    (pc = "report" /\ Cardinality(Uncovered(sensors, limit[i])) = 1) =>
        /\ found # None
        /\ Reported \in Uncovered(sensors, limit[i])

(***************************************************************************)
(* C4: a reported position lies in the search region.                      *)
(* Stated as claimed; Spec violates it.                                    *)
(***************************************************************************)
C4_ReportedInRegion ==
    Accepted =>
        /\ 0 <= Reported[1] /\ Reported[1] <= limit[i]
        /\ 0 <= Reported[2] /\ Reported[2] <= limit[i]

(***************************************************************************)
(* C5: a reported position is outside the reach of every sensor.           *)
(* Stated as claimed; Spec violates it.                                    *)
(***************************************************************************)
C5_ReportedOutOfReach ==
    Accepted => \A n \in 1..Len(sensors) : ~InReach(sensors[n], Reported)

(***************************************************************************)
(* C6: when the search of some limit accepts no row, answer returns a      *)
(* no-gap-found error, not Ok and not a parse error.                       *)
(* Stated as claimed; Spec violates it.                                    *)
(***************************************************************************)
NoRowAccepted(n) ==
    \A row \in 0..limit[n] : Len(row_ranges(sensors, row, limit[n])) <= 1

C6_NoGapIsAnError ==
    (/\ pc = "done"
     /\ \A n \in 1..Len(input) : input[n] # None
     /\ \E n \in 1..2 : NoRowAccepted(n)) =>
        /\ result.kind = "Err"
        /\ result.error = "NoGapFound"

(***************************************************************************)
(* C7: an accepted row has exactly two clamped merged intervals with       *)
(* exactly one column between them.                                        *)
(* Stated as claimed; Spec violates it.                                    *)
(***************************************************************************)
C7_AcceptedRowHasOneCellGap ==
    Accepted =>
        /\ Len(found[1].ranges) = 2
        /\ found[1].ranges[2].first - found[1].ranges[1].last = 2

(***************************************************************************)
(* C8: for cur.first <= nxt.first, join returns the one interval           *)
(* [min first, max last] when cur.last + 1 >= nxt.first, and both          *)
(* intervals unchanged when an integer lies between them.                  *)
(***************************************************************************)
C8_JoinMergesIffTouching ==
    (pc = "join_ret" /\ arg_self.first <= arg_rhs.first) =>
        IF arg_self.last + 1 >= arg_rhs.first
        THEN ret_join = <<new(min(arg_self.first, arg_rhs.first),
                              max(arg_self.last, arg_rhs.last)), None>>
        ELSE ret_join = <<arg_self, Some(arg_rhs)>>

\* join was called on two intervals with exactly one integer between them
C8_Witness ==
    /\ pc = "join_ret"
    /\ arg_self.last + 2 = arg_rhs.first
    /\ ret_join[2] # None

(***************************************************************************)
(* C9: on sorted input, what join_all has emitted is strictly ascending in *)
(* first, pairwise disjoint, and leaves an integer between neighbours.     *)
(***************************************************************************)
C9_JoinAllOutputSeparated ==
    (pc \in {"join_all_iter", "join_all_ret"} /\ SortedSeq(arg_input)) =>
        \A m \in 1..Len(it.out) : \A n \in 1..Len(it.out) :
            m < n =>
                /\ it.out[m].first < it.out[n].first
                /\ ColumnsOf(it.out[m]) \cap ColumnsOf(it.out[n]) = {}
                /\ (n = m + 1 => it.out[m].last + 1 < it.out[n].first)

\* a sorted input of three intervals, two of them merged, gave two outputs
C9_Witness ==
    /\ pc = "join_all_ret"
    /\ SortedSeq(arg_input)
    /\ Len(arg_input) = 3
    /\ Len(it.out) = 2

(***************************************************************************)
(* C10: join_all returns a sorted, disjoint, non-adjacent sequence         *)
(* unchanged; in particular it returns its own output unchanged.           *)
(***************************************************************************)
C10_JoinAllIdempotent ==
    pc = "join_all_ret" =>
        /\ MergedSeq(arg_input) => it.out = arg_input
        /\ SortedSeq(arg_input) => join_all(it.out) = it.out

\* join_all ran over three separated intervals
C10_Witness ==
    /\ pc = "join_all_ret"
    /\ MergedSeq(arg_input)
    /\ Len(arg_input) = 3
    /\ Len(it.out) = 3

(***************************************************************************)
(* C11: merging one row's intervals (insert each into the ordered set,     *)
(* then join_all over the set) gives the same output for every order in    *)
(* which the same intervals are supplied.                                  *)
(***************************************************************************)
\* the orders of a sequence of n elements
Orders(n) == {f \in [1..n -> 1..n] : \A a \in 1..n : \E b \in 1..n : f[b] = a}

Reordered(seq, f) == [n \in 1..Len(seq) |-> seq[f[n]]]

RECURSIVE InsertAll(_, _)
InsertAll(set, seq) ==
    IF seq = <<>> THEN set ELSE InsertAll(btree_insert(set, Head(seq)), Tail(seq))

C11_MergeOrderIndependent ==
    pc = "merge_ret" =>
        \A f \in Orders(Len(arg_order)) :
            join_all(InsertAll(<<>>, Reordered(arg_order, f))) = ret_merge[1]

\* three intervals supplied out of order, two sharing their first, were merged
C11_Witness ==
    /\ pc = "merge_ret"
    /\ Len(arg_order) = 3
    /\ ~SortedSeq(arg_order)
    /\ \E m, n \in 1..3 : /\ arg_order[m].first = arg_order[n].first
                          /\ arg_order[m].last # arg_order[n].last
    /\ Len(ret_merge[1]) = 2

(***************************************************************************)
(* C12: cmp is a total order: a < b iff a.first < b.first, or the firsts   *)
(* are equal and a.last > b.last; Equal iff first and last are both equal; *)
(* antisymmetric and transitive.                                           *)
(***************************************************************************)
C12_CmpIsTotalOrder ==
    pc = "cmp_ret" =>
        /\ ret_cmp.ab \in {"Less", "Equal", "Greater"}
        /\ ret_cmp.ab = "Less" <=>
               \/ arg_a.first < arg_b.first
               \/ arg_a.first = arg_b.first /\ arg_a.last > arg_b.last
        /\ ret_cmp.ab = "Equal" <=>
               (arg_a.first = arg_b.first /\ arg_a.last = arg_b.last)
        /\ ret_cmp.ab = "Equal" <=> arg_a = arg_b
        /\ ret_cmp.ab = "Less" <=> ret_cmp.ba = "Greater"
        /\ ret_cmp.ab = "Equal" <=> ret_cmp.ba = "Equal"
        /\ (ret_cmp.ab = "Less" /\ ret_cmp.bc = "Less") => ret_cmp.ac = "Less"

\* a chain a < b < c whose first link is decided by last alone
C12_Witness ==
    /\ pc = "cmp_ret"
    /\ arg_a.first = arg_b.first
    /\ arg_a.last > arg_b.last
    /\ ret_cmp.ab = "Less"
    /\ ret_cmp.bc = "Less"

(***************************************************************************)
(* C13: when the search has accepted row y with gap column x, the value    *)
(* stored for that limit is x * 4,000,000 + y, for both limits.            *)
(* Stated as claimed; Spec violates it.                                    *)
(***************************************************************************)
C13_FrequencyIsTuning ==
    [][Accepted =>
          /\ pc' # "panicked"
          /\ frequency'[i] = u64(0, Reported[1] * 4000000 + Reported[2])]_vars

(***************************************************************************)
(* C14: a.distance_to(b) = b.distance_to(a), and the value is              *)
(* |a.x - b.x| + |a.y - b.y|.                                              *)
(***************************************************************************)
C14_DistanceSymmetric ==
    pc = "distance_ret" =>
        /\ ret_distance.ab = ret_distance.ba
        /\ ret_distance.ab = Abs(arg_from[1] - arg_to[1]) + Abs(arg_from[2] - arg_to[2])

\* two coordinates differing in x and in y, the first to the right and below
C14_Witness ==
    /\ pc = "distance_ret"
    /\ arg_from[1] > arg_to[1]
    /\ arg_from[2] < arg_to[2]
    /\ ret_distance.ab > 2

(***************************************************************************)
(* C15: range(row) is None on every row farther than the reach from the    *)
(* sensor, and on the sensor's own row, when the beacon is not on it, the  *)
(* interval is the 2r+1 columns centred on the sensor.                     *)
(***************************************************************************)
C15_RangeTaperAndWidth ==
    pc = "range_ret" =>
        /\ Abs(arg_row - arg_sensor.sensor[2]) > Reach(arg_sensor) =>
               ret_range = None
        /\ (arg_row = arg_sensor.sensor[2] /\ arg_sensor.closest_beacon[2] # arg_row) =>
               /\ ret_range # None
               /\ ret_range[1].first = arg_sensor.sensor[1] - Reach(arg_sensor)
               /\ ret_range[1].last = arg_sensor.sensor[1] + Reach(arg_sensor)
               /\ Cardinality(ColumnsOf(ret_range[1])) = 2 * Reach(arg_sensor) + 1

\* range was called on the sensor's own row, the beacon on another row
C15_Witness ==
    /\ pc = "range_ret"
    /\ arg_row = arg_sensor.sensor[2]
    /\ arg_sensor.closest_beacon[2] # arg_row
    /\ Reach(arg_sensor) = 2
    /\ ret_range # None

(***************************************************************************)
(* C16: for the sensor at (8,7) with beacon (2,10), range(9) = [1,15],     *)
(* range(10) = [3,14] and range(11) = [3,13]; for the sensor at (5,5) with *)
(* beacon (5,10), range(10) = None.                                        *)
(***************************************************************************)
C16_RangesOfTheTest ==
    pc = "range_ret" =>
        /\ (arg_sensor = ranges_sensor_a /\ arg_row = 9) =>
               ret_range = Some(new(1, 15))
        /\ (arg_sensor = ranges_sensor_a /\ arg_row = 10) =>
               ret_range = Some(new(3, 14))
        /\ (arg_sensor = ranges_sensor_a /\ arg_row = 11) =>
               ret_range = Some(new(3, 13))
        /\ (arg_sensor = ranges_sensor_b /\ arg_row = 10) =>
               ret_range = None

\* range(10) has returned for the sensor at (8,7), whose beacon is on row 10
C16_Witness ==
    /\ pc = "range_ret"
    /\ arg_sensor = ranges_sensor_a
    /\ arg_row = 10
    /\ ret_range = Some(new(3, 14))

(***************************************************************************)
(* C17: on the puzzle's public 14-line example, answer returns             *)
(* part1 = [26, 0] (rows 10 and 2,000,000) and part2 = [56000011, 0]       *)
(* (limits 20 and 4,000,000).                                              *)
(***************************************************************************)
C17_ExampleAnswer ==
    (pc = "done" /\ input = d15_example) =>
        result = [kind |-> "Ok",
                  part1 |-> <<26, 0>>,
                  part2 |-> <<u64(0, 56000011), u64(0, 0)>>]

(***************************************************************************)
(* C18: in the part-A count a beacon position reported by several sensors  *)
(* is subtracted at most once: the count is the number of columns of the   *)
(* row's intervals less the number of distinct beacon positions on the row *)
(* inside them.                                                            *)
(***************************************************************************)
RangeColumns(n) == UNION {ColumnsOf(r) : r \in ranges[n]}

BeaconsInside(n) ==
    {sensors[k].closest_beacon : k \in 1..Len(sensors)}
        \cap (RangeColumns(n) \X {heights[n]})

C18_SharedBeaconCountedOnce ==
    pc \in {"search", "report", "return"} =>
        \A n \in 1..2 :
            total_slots[n] =
                Cardinality(RangeColumns(n)) - Cardinality(BeaconsInside(n))

\* counted: two different sensors report the same beacon, which is on a
\* counted row and inside its intervals
C18_Witness ==
    /\ pc \in {"search", "report", "return"}
    /\ Len(sensors) = 2
    /\ sensors[1] # sensors[2]
    /\ sensors[1].closest_beacon = sensors[2].closest_beacon
    /\ \E n \in 1..2 : sensors[1].closest_beacon \in BeaconsInside(n)

(***************************************************************************)
(* C19: for every sensor, beacon and row with coordinates in the signed    *)
(* integer type, and every interval with first <= last, distance_to,       *)
(* range, join, len and clamp complete without arithmetic overflow,        *)
(* wrap-around or panic.                                                   *)
(* Stated as claimed; SpecWidth violates it.                               *)
(***************************************************************************)
C19_NoOverflow ==
    callee # "" => (pc # "panicked" /\ overflow = FALSE)

(***************************************************************************)
(* C20: for closed ranges left = [a,b] and right = [c,d] with a <= b and   *)
(* c <= d, intersects(left, right) is true iff the two ranges share an     *)
(* integer, and it is symmetric in its arguments.                          *)
(***************************************************************************)
C20_IntersectsIsSharedInteger ==
    pc = "intersects_ret" =>
        /\ ret_intersects.lr = (to_set(arg_left) \cap to_set(arg_right) # {})
        /\ ret_intersects.lr = ret_intersects.rl

\* intersects has returned TRUE for a right range that starts before the
\* left one and overlaps it
C20_Witness ==
    /\ pc = "intersects_ret"
    /\ arg_right.start < arg_left.start
    /\ arg_left.start <= arg_right.end
    /\ ret_intersects.lr

(***************************************************************************)
(* C21: after the moves R5, U8, L8, D3, R17, D10, L25, U20, applied one    *)
(* unit step at a time to ropes that start with all knots on one cell,     *)
(* the tail of the 2-knot rope has visited 88 distinct positions and the   *)
(* tail of the 10-knot rope 36, the start position included.               *)
(***************************************************************************)
C21_ExampleTailPositions ==
    (pc = "d09_done" /\ moves = d09_example_2) =>
        answer9 = [kind |-> "Ok", part1 |-> 88, part2 |-> 36]

\* the run on the moves of d09_example_2 has returned
C21_Witness ==
    /\ pc = "d09_done"
    /\ moves = d09_example_2
    /\ move_idx = 9
    /\ answer9.kind = "Ok"

(***************************************************************************)
(* C22: every interval returned by range, and every interval emitted by    *)
(* join_all from intervals with first <= last, satisfies first <= last; a  *)
(* trim that would leave first > last yields None instead.                 *)
(***************************************************************************)
C22_IntervalsWellFormed ==
    /\ pc = "range_ret" =>
           /\ ret_range # None => ret_range[1].first <= ret_range[1].last
           /\ (arg_sensor.closest_beacon = arg_sensor.sensor
                   /\ arg_row = arg_sensor.sensor[2]) => ret_range = None
    /\ pc \in {"join_all_iter", "join_all_ret"} =>
           \A n \in 1..Len(it.out) : it.out[n].first <= it.out[n].last

\* range was called on the row of a sensor standing on its own beacon: the
\* only column in reach is trimmed away
C22_Witness ==
    /\ pc = "range_ret"
    /\ arg_sensor.closest_beacon = arg_sensor.sensor
    /\ arg_row = arg_sensor.sensor[2]
    /\ ret_range = None

(***************************************************************************)
(* C23: join_all called directly on an arbitrary unsorted collection of    *)
(* intervals produces the same ascending, pairwise-disjoint, non-adjacent  *)
(* output as it produces on that collection sorted by the interval order.  *)
(* Stated as claimed; SpecJoinAll violates it.                             *)
(***************************************************************************)
\* the collection sorted by the interval order, as the BTreeSet holds it
SortedInput == iter({arg_input[n] : n \in 1..Len(arg_input)})

C23_JoinAllSortsItsInput ==
    pc = "join_all_ret" =>
        /\ it.out = join_all(SortedInput)
        /\ MergedSeq(it.out)

(***************************************************************************)
(* C23, amended: on an input already sorted by the interval order,         *)
(* join_all produces the ascending, pairwise-disjoint, non-adjacent output *)
(* of the sorted collection; the sort itself is the caller's.              *)
(***************************************************************************)
C23_JoinAllOnSortedInput ==
    (pc = "join_all_ret" /\ SortedSeq(arg_input)) =>
        /\ it.out = join_all(SortedInput)
        /\ MergedSeq(it.out)

\* join_all ran over a sorted input that holds one interval twice
C23_Witness ==
    /\ pc = "join_all_ret"
    /\ SortedSeq(arg_input)
    /\ Len(arg_input) = 3
    /\ arg_input[1] = arg_input[2]
    /\ Len(it.out) = 2

(***************************************************************************)
(* C24: for sorted input, the integers covered by join_all's output are    *)
(* exactly the integers covered by its input (none added, none lost), and  *)
(* every input interval lies inside exactly one output interval.           *)
(***************************************************************************)
CoveredBy(seq) == UNION {ColumnsOf(seq[n]) : n \in 1..Len(seq)}

C24_JoinAllKeepsCoverage ==
    (pc = "join_all_ret" /\ SortedSeq(arg_input)) =>
        /\ CoveredBy(it.out) = CoveredBy(arg_input)
        /\ \A n \in 1..Len(arg_input) :
               Cardinality({m \in 1..Len(it.out) :
                               ColumnsOf(arg_input[n]) \subseteq ColumnsOf(it.out[m])}) = 1

\* join_all ran over three sorted intervals, the second reaching past the
\* first and the third apart from both
C24_Witness ==
    /\ pc = "join_all_ret"
    /\ SortedSeq(arg_input)
    /\ Len(arg_input) = 3
    /\ arg_input[1].first < arg_input[2].first
    /\ arg_input[2].first <= arg_input[1].last
    /\ arg_input[1].last < arg_input[2].last
    /\ arg_input[2].last + 1 < arg_input[3].first
    /\ Len(it.out) = 2

(***************************************************************************)
(* C25: in the part-B search every interval counted after clamping to      *)
(* [0, limit] satisfies first <= last: a merged interval wholly outside    *)
(* [0, limit] is empty and does not count towards "more than one merged    *)
(* interval remains".                                                      *)
(* Stated as claimed; Spec violates it.                                    *)
(***************************************************************************)
C25_CountedIntervalsNonEmpty ==
    (pc = "report" /\ found # None) =>
        \A n \in 1..Len(found[1].ranges) :
            found[1].ranges[n].first <= found[1].ranges[n].last

(***************************************************************************)
(* C26: the part-B search examines rows in increasing y from 0 to limit    *)
(* and returns the smallest y whose row is accepted; no row after the      *)
(* first accepted one is examined, and if none is accepted every row       *)
(* 0..=limit has been examined exactly once.                               *)
(***************************************************************************)
\* the closure of lines 252-275 returns Some on this row
RowAccepted(row) == Len(row_ranges(sensors, row, limit[i])) > 1

C26_SearchInRowOrder ==
    [][/\ (pc # "search" /\ pc' = "search") => y' = 0
       /\ pc = "search" =>
              \/ /\ ~RowAccepted(y)
                 /\ y < limit[i]
                 /\ pc' = "search" /\ y' = y + 1
              \/ /\ RowAccepted(y)
                 /\ \A row \in 0..(y - 1) : ~RowAccepted(row)
                 /\ pc' = "report" /\ found' # None /\ found'[1].y = y
              \/ /\ y = limit[i]
                 /\ \A row \in 0..limit[i] : ~RowAccepted(row)
                 /\ pc' = "report" /\ found' = None]_vars

\* the second search has stopped on its last row, having passed the rows
\* before it
C26_Witness ==
    /\ pc = "report"
    /\ i = 2
    /\ found # None
    /\ found[1].y = limit[2]
    /\ limit[2] >= 2

(***************************************************************************)
(* C27: whether the part-B search accepts a row does not depend on limit:  *)
(* a row is accepted iff its unclamped merged sequence has more than one   *)
(* interval; hence, when the search of the first limit accepts some row,   *)
(* the search of the second limit accepts the same row and its result is   *)
(* non-zero.                                                               *)
(* Stated as claimed; Spec violates it.                                    *)
(***************************************************************************)
\* the closure of lines 252-275 returns Some on this row under limit[n]
AcceptedUnder(n, row) == Len(row_ranges(sensors, row, limit[n])) > 1

\* the merged intervals of a row before the clamp
Unclamped(row) == join_all(iter(row_set(sensors, row)))

FirstSearchAccepts == \E row \in 0..limit[1] : AcceptedUnder(1, row)

C27_AcceptanceIgnoresLimit ==
    /\ pc \in {"search", "report"} =>
           \A n \in 1..2 : \A row \in 0..limit[2] :
               AcceptedUnder(n, row) <=> Len(Unclamped(row)) > 1
    /\ (pc = "report" /\ i = 2 /\ FirstSearchAccepts) =>
           /\ found # None
           /\ AcceptedUnder(1, found[1].y)
           /\ \A row \in 0..(found[1].y - 1) : ~AcceptedUnder(1, row)
    /\ (pc \in {"return", "panicked"} /\ FirstSearchAccepts) =>
           /\ pc = "return"
           /\ frequency[2] # u64(0, 0)

(***************************************************************************)
(* C28: in count_slots, for every merged interval the number of distinct   *)
(* beacons on the row whose x lies inside the interval is at most the      *)
(* interval's len, so `slots -= 1` never goes below zero and the part-A    *)
(* count is non-negative for every sensor list.                            *)
(***************************************************************************)
\* the beacons that line 230 takes off the slots of interval r
BeaconsOn(r, row) == {b \in beacons : b[2] = row /\ contains(r, b[1])}

C28_SlotsNeverNegative ==
    pc \in {"search", "report", "return"} =>
        \A n \in 1..2 :
            LET merged == join_all(iter(ranges[n]))
            IN  /\ \A m \in 1..Len(merged) :
                       /\ Cardinality(BeaconsOn(merged[m], heights[n])) <= len(merged[m])
                       /\ slots_of(beacons, merged[m], heights[n]) >= 0
                /\ total_slots[n] >= 0

\* counted: an interval of a counted row holds beacons on every column but
\* one
C28_Witness ==
    /\ pc \in {"search", "report", "return"}
    /\ \E n \in 1..2 :
           LET merged == join_all(iter(ranges[n]))
           IN  \E m \in 1..Len(merged) :
                   /\ Cardinality(BeaconsOn(merged[m], heights[n])) >= 1
                   /\ slots_of(beacons, merged[m], heights[n]) = 1

(***************************************************************************)
(* C29: for a rope of any length >= 2 and any sequence of R/U/L/D unit     *)
(* steps applied to its head, every knot's stored offset stays a delta in  *)
(* {-1,0,1} x {-1,0,1}, and the unreachable!/panic! branches of            *)
(* Offset::apply and Direction::from_delta are never reached.              *)
(***************************************************************************)
Directions ==
    {"Right", "UpRight", "Up", "UpLeft", "Left", "DownLeft", "Down", "DownRight"}

\* the delta an Offset stands for (line 186)
offset_delta(o) == IF o = None THEN <<0, 0>> ELSE delta(o[1])

C29_KnotsStayTouching ==
    rope # None =>
        /\ pc # "panicked"
        /\ \A k \in 1..Len(rope.offsets) :
               /\ rope.offsets[k] = None \/ rope.offsets[k][1] \in Directions
               /\ offset_delta(rope.offsets[k]) \in (-1..1) \X (-1..1)

\* a rope of MaxKnots knots whose knots lie on a diagonal, every offset
\* being UpRight
C29_Witness ==
    /\ pc = "rope_apply"
    /\ Len(rope.offsets) = MaxKnots - 1
    /\ \A k \in 1..Len(rope.offsets) : rope.offsets[k] = Some("UpRight")

=============================================================================
